---- MODULE Spec2Model ----
(***************************************************************************)
(* A model of src/deno_dir.rs: the module resolver, the path codec between *)
(* remote URLs and files of the deps cache, the source loader and the      *)
(* compiled-output (gen) cache of DenoDir.                                 *)
(*                                                                         *)
(* Strings are sequences of one-character strings, so that prefix tests,   *)
(* splitting, substring replacement and concatenation are computed the way *)
(* the code computes them.  Paths follow the posix rules of std::path.     *)
(***************************************************************************)
EXTENDS Integers, Sequences, FiniteSets, TLC

VARIABLES
    reload,      \* DenoDir.reload
    files,       \* path |-> [isdir, data], for the paths that exist
    gen_files,   \* name under gen |-> text, for the files that exist
    proc,        \* per caller: the call in progress, its locals, its result
    stored,      \* history: the (filename, source_code, output_code) written
    ncalls,      \* calls begun so far
    nedits,      \* edits of local files so far
    pure         \* the run of a pure function: its input and its result

vars == <<reload, files, gen_files, proc, stored, ncalls, nedits, pure>>

-----------------------------------------------------------------------------
(* String literals of the source. *)

S_http == <<"h", "t", "t", "p">>
S_https == <<"h", "t", "t", "p", "s">>
S_file == <<"f", "i", "l", "e">>
S_http_prefix == <<"h", "t", "t", "p", ":", "/", "/">>
S_PORT == <<"_", "P", "O", "R", "T">>
ASSET_PREFIX == <<"/", "$", "a", "s", "s", "e", "t", "$", "/">>
S_dot == <<".">>
S_slash == <<"/">>
Empty == <<>>

-----------------------------------------------------------------------------
(* str and String operations. *)

Take(s, n) == SubSeq(s, 1, n)

Drop(s, n) == SubSeq(s, n + 1, Len(s))

starts_with(s, pre) == Len(s) >= Len(pre) /\ SubSeq(s, 1, Len(pre)) = pre

ends_with(s, suf) ==
    Len(s) >= Len(suf) /\ SubSeq(s, Len(s) - Len(suf) + 1, Len(s)) = suf

SetMin(S) == CHOOSE x \in S : \A y \in S : x <= y

FirstOrZero(idx) == IF idx = {} THEN 0 ELSE SetMin(idx)

\* str::find: the index of the first occurrence of pat in s, 0 when none.
find(s, pat) ==
    FirstOrZero({i \in 1..(Len(s) - Len(pat) + 1) :
                    SubSeq(s, i, i + Len(pat) - 1) = pat})

contains(s, pat) == find(s, pat) # 0

ReplaceAt(s, i, n, to) ==
    IF i = 0 THEN s ELSE Take(s, i - 1) \o to \o Drop(s, i + n - 1)

\* str::replacen(pat, to, 1): only the first occurrence is replaced.
replacen1(s, pat, to) == ReplaceAt(s, find(s, pat), Len(pat), to)

\* The text of s before the first c, or all of s when it has no c.
Before(s, c) == ReplaceAt(s, find(s, <<c>>), Len(s), Empty)

\* The text of s from the first c on, or nothing when it has no c.
From(s, c) ==
    IF find(s, <<c>>) = 0 THEN Empty ELSE Drop(s, find(s, <<c>>) - 1)

\* The text of s after the first c, or nothing when it has no c.
After(s, c) == Drop(From(s, c), 1)

RECURSIVE Split(_, _)
\* str::split on one character.
Split(s, c) ==
    IF find(s, <<c>>) = 0 THEN <<s>>
    ELSE <<Before(s, c)>> \o Split(After(s, c), c)

RECURSIVE JoinWith(_, _)
\* The pieces joined by the string sep.
JoinWith(segs, sep) ==
    IF segs = <<>> THEN <<>>
    ELSE IF Len(segs) = 1 THEN segs[1]
    ELSE segs[1] \o sep \o JoinWith(Tail(segs), sep)

RECURSIVE FilterSeq(_, _)
\* The pieces of segs that are not in the set drop, in order.
FilterSeq(segs, drop) ==
    IF segs = <<>> THEN <<>>
    ELSE IF Head(segs) \in drop THEN FilterSeq(Tail(segs), drop)
    ELSE <<Head(segs)>> \o FilterSeq(Tail(segs), drop)

Digits == <<"0", "1", "2", "3", "4", "5", "6", "7", "8", "9">>

DigitSet == {Digits[i] : i \in 1..10}

DigitVal(c) == (CHOOSE i \in 1..10 : Digits[i] = c) - 1

RECURSIVE ParseNat(_)
\* str::parse::<u32> on a string of decimal digits.
ParseNat(s) ==
    IF s = <<>> THEN 0
    ELSE ParseNat(Take(s, Len(s) - 1)) * 10 + DigitVal(s[Len(s)])

RECURSIVE FormatNat(_)
\* Display of an unsigned number: no leading zeros.
FormatNat(n) ==
    IF n < 10 THEN <<Digits[n + 1]>>
    ELSE FormatNat(n \div 10) \o <<Digits[(n % 10) + 1]>>

\* char::to_ascii_lowercase over the letters of the alphabet used here.
LowerCh(c) ==
    CASE c = "P" -> "p"
      [] c = "O" -> "o"
      [] c = "R" -> "r"
      [] c = "T" -> "t"
      [] OTHER -> c

to_lowercase(s) == [i \in 1..Len(s) |-> LowerCh(s[i])]

AsciiAlpha ==
    {"a", "b", "c", "d", "e", "f", "g", "h", "i", "j", "k", "l", "m",
     "n", "o", "p", "q", "r", "s", "t", "u", "v", "w", "x", "y", "z",
     "P", "O", "R", "T"}

-----------------------------------------------------------------------------
(* std::path on posix. *)

is_absolute(p) == starts_with(p, S_slash)

ComponentsOf(p, raw) ==
    IF is_absolute(p) THEN <<S_slash>> \o FilterSeq(raw, {Empty, S_dot})
    ELSE IF p # Empty /\ Head(raw) = S_dot
        THEN <<S_dot>> \o FilterSeq(raw, {Empty, S_dot})
    ELSE FilterSeq(raw, {Empty, S_dot})

\* Path::components: the root, then the names; empty names and "." are
\* dropped, except a "." that begins a relative path; ".." is kept.
Components(p) == ComponentsOf(p, Split(p, "/"))

IsPrefixSeq(a, b) == Len(a) <= Len(b) /\ SubSeq(b, 1, Len(a)) = a

\* Path::starts_with: a whole-component prefix.
path_starts_with(p, base) == IsPrefixSeq(Components(base), Components(p))

RECURSIVE TrimLeft(_)
\* Components::as_path, front: separators and "." names are skipped.
TrimLeft(s) ==
    IF starts_with(s, S_slash) THEN TrimLeft(Drop(s, 1))
    ELSE IF s = S_dot \/ starts_with(s, <<".", "/">>) THEN TrimLeft(Drop(s, 1))
    ELSE s

RECURSIVE TrimRight(_)
\* Components::as_path, back: separators and "." names are skipped.
TrimRight(s) ==
    IF ends_with(s, S_slash) THEN TrimRight(Take(s, Len(s) - 1))
    ELSE IF ends_with(s, <<"/", ".">>) THEN TrimRight(Take(s, Len(s) - 1))
    ELSE s

RECURSIVE SkipNames(_, _)
\* The text of the relative path s left after its first k names.
SkipNames(s, k) ==
    IF k = 0 THEN TrimLeft(s)
    ELSE SkipNames(After(TrimLeft(s), "/"), k - 1)

\* The text of p left after its first k components (the root counts as one).
SkipComponents(p, k) ==
    IF k = 0 THEN p
    ELSE IF is_absolute(p) THEN SkipNames(p, k - 1)
    ELSE SkipNames(p, k)

\* Path::strip_prefix(base).to_str(), for a p that starts with base: the
\* rest is a slice of p itself, trimmed at both ends.
strip_prefix(p, base) ==
    TrimRight(SkipComponents(p, Len(Components(base))))

\* PathBuf::push: an absolute piece replaces the buffer; otherwise a
\* separator is added unless the buffer is empty or already ends with one.
path_push(buf, piece) ==
    IF is_absolute(piece) THEN piece
    ELSE IF buf = Empty \/ ends_with(buf, S_slash) THEN buf \o piece
    ELSE buf \o S_slash \o piece

RECURSIVE path_push_all(_, _)
path_push_all(buf, pieces) ==
    IF pieces = <<>> THEN buf
    ELSE path_push_all(path_push(buf, Head(pieces)), Tail(pieces))

RECURSIVE ResolveDots(_, _)
\* ".." climbs one name (never above the root), other names are kept.
ResolveDots(acc, names) ==
    IF names = <<>> THEN acc
    ELSE IF Head(names) = <<".", ".">>
         THEN ResolveDots(IF acc = <<>> THEN acc ELSE Take(acc, Len(acc) - 1),
                          Tail(names))
    ELSE ResolveDots(Append(acc, Head(names)), Tail(names))

\* deno_fs::normalize_path of an absolute path: "." and ".." resolved,
\* separators collapsed.
normalize_path(p) ==
    IF is_absolute(p)
    THEN S_slash \o JoinWith(ResolveDots(<<>>,
                                 FilterSeq(Split(p, "/"), {Empty, S_dot})),
                             S_slash)
    ELSE JoinWith(FilterSeq(Split(p, "/"), {Empty, S_dot}), S_slash)

-----------------------------------------------------------------------------
(* The url crate: a Url is its scheme, its host (when it has one), its     *)
(* port (<<>> for None, <<n>> for Some(n)) and its path segments.  An       *)
(* Option is a sequence of length at most one throughout.  The alphabet of *)
(* the model has no "?", "#", "@", "%", "\" or "[", and no host is a number.*)

NullUrl ==
    [scheme |-> Empty, has_host |-> FALSE, host |-> Empty, port |-> <<>>,
     segs |-> <<>>, cannot_be_a_base |-> FALSE, opaque |-> Empty]

ParseOk(u) == [st |-> "ok", url |-> u, err |-> "none"]

ParseErr(e) == [st |-> "err", url |-> NullUrl, err |-> e]

ParsePanic(e) == [st |-> "panic", url |-> NullUrl, err |-> e]

\* The index of the ":" that ends a scheme at the front of s, 0 when s
\* does not begin with a scheme.
scheme_end(s) ==
    LET i == find(s, <<":">>)
    IN  IF i <= 1 THEN 0
        ELSE IF s[1] \in AsciiAlpha /\ \A k \in 2..(i - 1) : s[k] \in AsciiAlpha \cup DigitSet \cup {"+", "-", "."}
             THEN i
        ELSE 0

\* SchemeType::Special other than file, with the default ports.
default_port(scheme) ==
    CASE scheme = S_http -> <<80>>
      [] scheme = S_https -> <<443>>
      [] scheme = <<"f", "t", "p">> -> <<21>>
      [] scheme = <<"w", "s">> -> <<80>>
      [] scheme = <<"w", "s", "s">> -> <<443>>
      [] scheme = <<"g", "o", "p", "h", "e", "r">> -> <<70>>
      [] OTHER -> <<>>

is_special(scheme) == default_port(scheme) # <<>> \/ scheme = S_file

RECURSIVE SkipSlashes(_)
SkipSlashes(s) == IF starts_with(s, S_slash) THEN SkipSlashes(Drop(s, 1)) ELSE s

RECURSIVE RemoveDots(_, _)
\* Parser::parse_path: a "." segment is skipped and a ".." segment pops the
\* last one; either of them at the end leaves an empty last segment.
RemoveDots(acc, raw) ==
    IF raw = <<>> THEN acc
    ELSE LET seg == Head(raw)
             last == Len(raw) = 1
             popped == IF acc = <<>> THEN acc ELSE Take(acc, Len(acc) - 1)
         IN  IF seg = S_dot
                 THEN RemoveDots(IF last THEN Append(acc, Empty) ELSE acc, Tail(raw))
             ELSE IF seg = <<".", ".">>
                 THEN RemoveDots(IF last THEN Append(popped, Empty) ELSE popped,
                                 Tail(raw))
             ELSE RemoveDots(Append(acc, seg), Tail(raw))

\* The segments of a path that is empty or begins with "/".
parse_path(pathstr, special) ==
    IF pathstr = Empty THEN (IF special THEN <<Empty>> ELSE <<>>)
    ELSE RemoveDots(<<>>, Split(Drop(pathstr, 1), "/"))

MaxPort == 2^16 - 1

UrlOf(scheme, has_host, host, port, segs) ==
    [scheme |-> scheme, has_host |-> has_host, host |-> host, port |-> port,
     segs |-> segs, cannot_be_a_base |-> FALSE, opaque |-> Empty]

\* Parser::parse_port: no port, or the default one, is None.
PortOf(scheme, portstr, n) ==
    IF portstr = Empty \/ <<n>> = default_port(scheme) THEN <<>> ELSE <<n>>

\* Parser::parse_host and parse_port for a host and the text of a port.
parse_host_port(scheme, host, portstr, pathstr) ==
    IF is_special(scheme) /\ host = Empty THEN ParseErr("EmptyHost")
    ELSE IF \E k \in 1..Len(portstr) : portstr[k] \notin DigitSet
        THEN ParseErr("InvalidPort")
    ELSE IF ParseNat(portstr) > MaxPort THEN ParseErr("InvalidPort")
    ELSE ParseOk(UrlOf(scheme, TRUE, host,
                       PortOf(scheme, portstr, ParseNat(portstr)),
                       parse_path(pathstr, is_special(scheme))))

\* The authority "host[:port]" and the path that follows it.
parse_authority(scheme, auth, pathstr) ==
    parse_host_port(scheme,
                    IF is_special(scheme) THEN to_lowercase(Before(auth, ":"))
                    ELSE Before(auth, ":"),
                    After(auth, ":"), pathstr)

\* Parser::parse_host and parse_port, then the path.
parse_authority_and_path(scheme, rest) ==
    parse_authority(scheme, Before(rest, "/"), From(rest, "/"))

FileUrl(host, pathstr) ==
    ParseOk(UrlOf(S_file, host # Empty, host, <<>>, parse_path(pathstr, TRUE)))

\* Parser::parse_file without a base: "//host/path", "/path" or "path".
parse_file(rest) ==
    IF starts_with(rest, <<"/", "/">>)
    THEN FileUrl(to_lowercase(Before(Drop(rest, 2), "/")), From(Drop(rest, 2), "/"))
    ELSE IF starts_with(rest, S_slash) THEN FileUrl(Empty, rest)
    ELSE FileUrl(Empty, S_slash \o rest)

\* Parser::parse_with_scheme without a base; rest follows the ":".
parse_with_scheme(scheme, rest) ==
    IF scheme = S_file THEN parse_file(rest)
    ELSE IF is_special(scheme)
        THEN parse_authority_and_path(scheme, SkipSlashes(rest))
    ELSE IF starts_with(rest, <<"/", "/">>)
        THEN parse_authority_and_path(scheme, Drop(rest, 2))
    ELSE IF starts_with(rest, S_slash)
        THEN ParseOk(UrlOf(scheme, FALSE, Empty, <<>>, parse_path(rest, FALSE)))
    ELSE ParseOk([NullUrl EXCEPT !.scheme = scheme, !.cannot_be_a_base = TRUE,
                                 !.opaque = rest])

\* Url::parse.
Url_parse(s) ==
    IF scheme_end(s) = 0 THEN ParseErr("RelativeUrlWithoutBase")
    ELSE parse_with_scheme(to_lowercase(Take(s, scheme_end(s) - 1)),
                           Drop(s, scheme_end(s)))

\* Parser::parse_relative: a reference without a scheme, against base.
parse_relative(base, ref) ==
    IF ref = Empty THEN ParseOk(base)
    ELSE IF starts_with(ref, <<"/", "/">>)
        THEN IF base.scheme = S_file THEN parse_file(ref)
             ELSE parse_authority_and_path(base.scheme,
                      IF is_special(base.scheme) THEN SkipSlashes(ref)
                      ELSE Drop(ref, 2))
    ELSE IF starts_with(ref, S_slash)
        THEN ParseOk([base EXCEPT !.segs = parse_path(ref, is_special(base.scheme))])
    ELSE ParseOk([base EXCEPT !.segs =
             RemoveDots(IF base.segs = <<>> THEN <<>>
                        ELSE Take(base.segs, Len(base.segs) - 1),
                        Split(ref, "/"))])

UrlJoinAt(base, ref, e, scheme, rest) ==
    IF e # 0
    THEN IF is_special(scheme) /\ scheme = base.scheme
            /\ ~starts_with(rest, <<"/", "/">>)
         THEN parse_relative(base, rest)
         ELSE parse_with_scheme(scheme, rest)
    ELSE IF base.cannot_be_a_base
        THEN ParseErr("RelativeUrlWithCannotBeABaseBase")
    ELSE parse_relative(base, ref)

\* Url::join.
Url_join(base, ref) ==
    UrlJoinAt(base, ref, scheme_end(ref),
              to_lowercase(Take(ref, scheme_end(ref) - 1)),
              Drop(ref, scheme_end(ref)))

RECURSIVE PathOf(_)
\* The path of a Url: "/" before every segment.
PathOf(segs) ==
    IF segs = <<>> THEN Empty ELSE S_slash \o Head(segs) \o PathOf(Tail(segs))

\* Url::to_string: the canonical serialization.
to_string(u) ==
    u.scheme \o <<":">>
    \o (IF u.has_host
        THEN <<"/", "/">> \o u.host
             \o (IF u.port = <<>> THEN Empty ELSE <<":">> \o FormatNat(u.port[1]))
        ELSE IF u.scheme = S_file THEN <<"/", "/">> ELSE Empty)
    \o (IF u.cannot_be_a_base THEN u.opaque ELSE PathOf(u.segs))

FileSegs(names) == IF names = <<>> THEN <<Empty>> ELSE names

\* Url::from_file_path: only of an absolute path; one segment per name.
from_file_path(p) ==
    IF ~is_absolute(p) THEN ParseErr("NotAbsolute")
    ELSE ParseOk(UrlOf(S_file, FALSE, Empty, <<>>, FileSegs(Tail(Components(p)))))

WithTrailingSlash(r) ==
    IF r.st # "ok" THEN r
    ELSE IF r.url.segs[Len(r.url.segs)] = Empty THEN r
    ELSE ParseOk([r.url EXCEPT !.segs = Append(r.url.segs, Empty)])

\* Url::from_directory_path: as from_file_path, ending with "/".
from_directory_path(p) == WithTrailingSlash(from_file_path(p))

\* Url::to_file_path: <<path>>, or <<>> for Err(()).
to_file_path(u) ==
    IF u.cannot_be_a_base THEN <<>>
    ELSE IF u.has_host /\ u.host \notin {Empty, <<"l", "o", "c", "a", "l", "h", "o", "s", "t">>} THEN <<>>
    ELSE <<PathOf(u.segs)>>

-----------------------------------------------------------------------------
(* DenoDir: the roots, the path codec, the hasher and the resolver. *)

\* DenoDir::new with custom_root = Some("/r").
root == <<"/", "r">>

gen == path_push(root, <<"g", "e", "n">>)

deps == path_push(root, <<"d", "e", "p", "s">>)

is_remote(module_name) == starts_with(module_name, S_http)

\* .map_err(|_err| url::ParseError::IdnaError)
MapErr(r) == IF r.st = "ok" THEN r ELSE ParseErr("IdnaError")

parse_local_or_remote(p) ==
    IF is_remote(p) THEN Url_parse(p) ELSE MapErr(from_file_path(p))

HostPort(url) ==
    IF url.port = <<>> THEN url.host
    ELSE url.host \o S_PORT \o FormatNat(url.port[1])

\* get_cache_filename that leaves the port out of the name.
get_cache_filename_without_port(basedir, url) ==
    IF ~url.has_host \/ url.cannot_be_a_base THEN <<>>
    ELSE <<path_push_all(path_push(basedir, url.host), url.segs)>>

\* The file of the deps cache that mirrors a remote url: <<path>>, or <<>>
\* where host_str().unwrap() or path_segments().unwrap() panics.
get_cache_filename(basedir, url) ==
    IF ~url.has_host \/ url.cannot_be_a_base THEN <<>>
    ELSE <<path_push_all(path_push(basedir, HostPort(url)), url.segs)>>

\* src_file_to_url without .replacen("_PORT", ":", 1).
src_file_to_url_keeping_port(filename) ==
    IF path_starts_with(filename, deps)
    THEN S_http_prefix \o strip_prefix(filename, deps)
    ELSE filename

\* A file of the deps cache back to the url it mirrors; any other name is
\* returned as it is.
src_file_to_url(filename) ==
    IF path_starts_with(filename, deps)
    THEN S_http_prefix \o replacen1(strip_prefix(filename, deps), S_PORT, <<":">>)
    ELSE filename

\* ring's SHA1 of the bytes fed to it and the hex of its digest, taken as
\* injective on those bytes: the digest stands for the bytes themselves.
sha1_hex(bytes) == bytes

\* The context is fed filename and then source_code: one byte string.
source_code_hash(filename, source_code) == sha1_hex(filename \o source_code)

\* gen/<hash>.js, kept as the pair of the directory and the file's name.
cache_path(filename, source_code) ==
    <<gen, source_code_hash(filename, source_code) \o <<".", "j", "s">>>>

\* The result of resolve_module, with the scheme of the url j it came from.
ResolveOk(scheme, m, f) ==
    [st |-> "ok", scheme |-> scheme, module_name |-> m, filename |-> f,
     err |-> "none"]

ResolveErr(e) ==
    [st |-> "err", scheme |-> Empty, module_name |-> Empty, filename |-> Empty,
     err |-> e]

ResolvePanic(e) ==
    [st |-> "panic", scheme |-> Empty, module_name |-> Empty, filename |-> Empty,
     err |-> e]

\* base.join(module_specifier.as_ref())?, for the base parsed or not.
JoinOnto(base, module_specifier) ==
    IF base.st # "ok" THEN base ELSE Url_join(base.url, module_specifier)

\* let base = r.unwrap();
Unwrap(r) == IF r.st # "ok" THEN ParsePanic("from_directory_path unwrap") ELSE r

\* The url j that resolve_module parses or joins.
resolve_url(module_specifier, containing_file) ==
    IF containing_file = S_dot
       \/ is_remote(module_specifier)
       \/ is_absolute(module_specifier)
    THEN parse_local_or_remote(module_specifier)
    ELSE IF ends_with(containing_file, S_slash)
    THEN JoinOnto(Unwrap(from_directory_path(containing_file)), module_specifier)
    ELSE JoinOnto(parse_local_or_remote(containing_file), module_specifier)

\* match j.scheme() { "file" => .., _ => .. }, for the file path fp of j.
\* The "file" arm with module_name left as to_file_path gives it.
resolve_local_unnormalized(fp) ==
    IF fp = <<>> THEN ResolvePanic("to_file_path unwrap")
    ELSE ResolveOk(S_file, fp[1], normalize_path(fp[1]))

resolve_local(fp) ==
    IF fp = <<>> THEN ResolvePanic("to_file_path unwrap")
    ELSE ResolveOk(S_file, normalize_path(fp[1]), normalize_path(fp[1]))

\* match j.scheme() { "file" => .., _ => .. }, for the cache file cf of j.
\* The remote arm, were it to look for the file in the deps cache.
resolve_remote_looking(url, cf) ==
    IF cf = <<>> THEN ResolvePanic("get_cache_filename unwrap")
    ELSE IF normalize_path(cf[1]) \in DOMAIN files
    THEN ResolveOk(S_file, normalize_path(cf[1]), normalize_path(cf[1]))
    ELSE ResolveOk(url.scheme, to_string(url), normalize_path(cf[1]))

resolve_remote(url, cf) ==
    IF cf = <<>> THEN ResolvePanic("get_cache_filename unwrap")
    ELSE ResolveOk(url.scheme, to_string(url), normalize_path(cf[1]))

\* The (module name, local filename) of the url j, when there is one.
resolve_parsed(j) ==
    IF j.st = "err" THEN ResolveErr(j.err)
    ELSE IF j.st = "panic" THEN ResolvePanic(j.err)
    ELSE IF j.url.scheme = S_file THEN resolve_local(to_file_path(j.url))
    ELSE resolve_remote(j.url, get_cache_filename(deps, j.url))

\* Returns (module name, local filename).
resolve_module(module_specifier, containing_file) ==
    resolve_parsed(resolve_url(src_file_to_url(module_specifier),
                               src_file_to_url(containing_file)))

-----------------------------------------------------------------------------
(* The file system.  files maps every existing path to a directory or a    *)
(* regular file with its text, the cache files that code_cache writes      *)
(* apart: gen_files maps the name <hash>.js of each of those to its text.  *)
(* No path that a load writes in the model is the path of one of them.     *)
(* An io::Result is [kind, data] with kind "Ok", "NotFound",                *)
(* "AlreadyExists" or "Other".                                              *)

Dir == [isdir |-> TRUE, data |-> Empty]

File(text) == [isdir |-> FALSE, data |-> text]

IoOk(text) == [kind |-> "Ok", data |-> text]

IoErr(kind) == [kind |-> kind, data |-> Empty]

ParentOf(names) ==
    IF names = <<>> THEN <<>>
    ELSE <<S_slash \o JoinWith(Take(names, Len(names) - 1), S_slash)>>

\* Path::parent of a normalized absolute path: <<parent>>, <<>> for "/".
path_parent(p) == ParentOf(Tail(Components(p)))

RECURSIVE AncestorsFrom(_)
AncestorsFrom(par) ==
    IF par = <<>> \/ par = <<S_slash>> THEN {}
    ELSE {par[1]} \cup AncestorsFrom(path_parent(par[1]))

\* The proper ancestors of a path, the root excluded.
Ancestors(p) == AncestorsFrom(path_parent(p))

\* Some ancestor of p is a regular file: p cannot be reached (ENOTDIR).
BlockedByFile(fs, p) ==
    \E a \in Ancestors(p) : a \in DOMAIN fs /\ ~fs[a].isdir

\* Path::exists.
path_exists(fs, p) == p \in DOMAIN fs /\ ~BlockedByFile(fs, p)

\* fs::read_to_string.
read_to_string(fs, p) ==
    IF BlockedByFile(fs, p) THEN IoErr("Other")
    ELSE IF p \notin DOMAIN fs THEN IoErr("NotFound")
    ELSE IF fs[p].isdir THEN IoErr("Other")
    ELSE IoOk(fs[p].data)

SetFile(fs, p, entry) ==
    [q \in DOMAIN fs \cup {p} |-> IF q = p THEN entry ELSE fs[q]]

\* fs::create_dir_all: the kind of its result.
create_dir_all_kind(fs, p) ==
    IF BlockedByFile(fs, p) THEN "Other"
    ELSE IF p \in DOMAIN fs /\ ~fs[p].isdir THEN "AlreadyExists"
    ELSE "Ok"

\* fs::create_dir_all: the file system it leaves when it succeeds.
create_dir_all_fs(fs, p) ==
    [q \in DOMAIN fs \cup Ancestors(p) \cup {p} |->
        IF q \in DOMAIN fs THEN fs[q] ELSE Dir]

\* File::create: the kind of its result.
file_create_kind(fs, p) ==
    IF BlockedByFile(fs, p) THEN "Other"
    ELSE IF p \in DOMAIN fs /\ fs[p].isdir THEN "Other"
    ELSE IF \E par \in Ancestors(p) : par \notin DOMAIN fs THEN "NotFound"
    ELSE "Ok"

-----------------------------------------------------------------------------
(* Errors and results of the calls. *)

S_cannot ==
    <<"C", "a", "n", "n", "o", "t", " ", "r", "e", "s", "o", "l", "v", "e", " ",
      "m", "o", "d", "u", "l", "e", " ", "\"">>

S_from == <<"\"", " ", "f", "r", "o", "m", " ", "\"">>

S_quote == <<"\"">>

\* A DenoError: its kind() and its message.
DenoError(kind, msg) == [kind |-> kind, msg |-> msg]

NoError == DenoError("none", Empty)

\* DenoError::from(io::Error): the kind is kept; the text is the system's.
io_error(kind) == DenoError(kind, <<"i", "o">>)

\* code_fetch without the rewriting of NotFound.
load_error_as_is(err, module_specifier, containing_file) == err

\* What code_fetch returns for a failed source load.
load_error(err, module_specifier, containing_file) ==
    IF err.kind = "NotFound"
    THEN DenoError("NotFound",
             S_cannot \o module_specifier \o S_from \o containing_file \o S_quote)
    ELSE err

NoOutput ==
    [module_name |-> Empty, filename |-> Empty, source_code |-> Empty,
     maybe_output_code |-> <<>>]

CodeFetchOutput(m, f, s, o) ==
    [module_name |-> m, filename |-> f, source_code |-> s, maybe_output_code |-> o]

NoRet == [st |-> "none", out |-> NoOutput, err |-> NoError]

RetOk(out) == [st |-> "ok", out |-> out, err |-> NoError]

RetErr(e) == [st |-> "err", out |-> NoOutput, err |-> e]

\* A panic of the thread, named by the line that raises it.
RetPanic(which) == [st |-> "panic", out |-> NoOutput, err |-> DenoError(which, Empty)]

-----------------------------------------------------------------------------
(* The inputs of the calls. *)

NProcs == 2

MaxCalls == 3

MaxEdits == 1

Procs == 1..NProcs

P_a == <<"/", "a">>

P_ab == <<"/", "a", "b">>

T_x == <<"x">>

T_bx == <<"b", "x">>

U_h_a == S_http_prefix \o <<"h", "/", "a">>

U_h_a_b == S_http_prefix \o <<"h", "/", "a", "/", "b">>

\* What the server may answer to a fetch.
RemoteTexts == {T_x, T_bx}

FetchErrorKinds == {"NotFound", "Other"}

\* The arguments of code_cache: (filename, source_code), and output_code.
CacheKeys == {<<P_a, T_bx>>, <<P_ab, T_x>>, <<P_a, T_x>>}

Outputs == {<<"o">>, <<"p">>}

\* The arguments of code_fetch: module_specifier, containing_file.
FetchInputs ==
    { <<P_a, S_dot>>,
      <<<<"a", "b">>, P_a>>,
      <<U_h_a, S_dot>>,
      <<U_h_a_b, P_a>>,
      <<ASSET_PREFIX \o <<"a">>, S_dot>>,
      <<<<"x", ":", "/", "/", "h", "/", "a">>, P_a>>,
      <<<<"u">>, <<"v">>>> }

-----------------------------------------------------------------------------
(* The state of a caller. *)

Idle ==
    [pc |-> "idle", op |-> "none", a1 |-> Empty, a2 |-> Empty, a3 |-> Empty,
     rst |-> "none", scheme |-> Empty, module_name |-> Empty, filename |-> Empty,
     source_code |-> Empty, existed |-> FALSE, fetched |-> 0,
     load_err |-> NoError, consulted |-> FALSE, wrote |-> FALSE, ret |-> NoRet]

NoPure == [phase |-> "none", a |-> Empty, b |-> Empty, r |-> Empty]

\* DenoDir::new has made root, gen and deps; one local module exists.
InitFiles ==
    [q \in {root, gen, deps, P_a} |-> IF q = P_a THEN File(T_bx) ELSE Dir]

Init ==
    /\ reload \in BOOLEAN
    /\ files = InitFiles
    /\ gen_files = << >>
    /\ proc = [p \in Procs |-> Idle]
    /\ stored = {}
    /\ ncalls = 0
    /\ nedits = 0
    /\ pure = NoPure

Finish(p, r) == [proc EXCEPT ![p].pc = "done", ![p].ret = r]

-----------------------------------------------------------------------------
(* code_cache, in the steps another caller can observe. *)

\* code_cache without the exists() check.
cache_exists_never(name) == FALSE

\* cache_path.exists().
cache_exists(name) == name \in DOMAIN gen_files

\* The name in gen of the cache file of the call of p.
CacheName(p) == cache_path(proc[p].a1, proc[p].a2)[2]

\* A call of code_cache: if cache_path.exists() { Ok(()) } else { ... }
CodeCacheExists(p) ==
    /\ proc[p].pc = "idle"
    /\ \E k \in CacheKeys, o \in Outputs :
          proc' = [proc EXCEPT ![p] =
             IF cache_exists(cache_path(k[1], k[2])[2])
             THEN [Idle EXCEPT !.pc = "done", !.op = "code_cache",
                               !.a1 = k[1], !.a2 = k[2], !.a3 = o,
                               !.existed = TRUE, !.ret = RetOk(NoOutput)]
             ELSE [Idle EXCEPT !.pc = "cc_create", !.op = "code_cache",
                               !.a1 = k[1], !.a2 = k[2], !.a3 = o]]
    /\ ncalls' = ncalls + 1
    /\ UNCHANGED <<reload, files, gen_files, stored, nedits, pure>>

\* fs::write, first half: File::create makes the file, or empties it.
CodeCacheCreate(p) ==
    /\ proc[p].pc = "cc_create"
    /\ gen_files' = SetFile(gen_files, CacheName(p), Empty)
    /\ proc' = [proc EXCEPT ![p].pc = "cc_write", ![p].wrote = TRUE]
    /\ UNCHANGED <<reload, files, stored, ncalls, nedits, pure>>

\* fs::write, second half: write_all of output_code.
CodeCacheWrite(p) ==
    /\ proc[p].pc = "cc_write"
    /\ gen_files' = SetFile(gen_files, CacheName(p), proc[p].a3)
    /\ proc' = Finish(p, RetOk(NoOutput))
    /\ stored' = stored \cup
          {[filename |-> proc[p].a1, source_code |-> proc[p].a2,
            output_code |-> proc[p].a3]}
    /\ UNCHANGED <<reload, files, ncalls, nedits, pure>>

-----------------------------------------------------------------------------
(* code_fetch, in the steps another caller can observe. *)

\* The caller once resolve_module has returned r; `?` ends the call on Err.
Resolved(module_specifier, containing_file, r) ==
    [Idle EXCEPT
        !.op = "code_fetch",
        !.a1 = module_specifier,
        !.a2 = containing_file,
        !.rst = r.st,
        !.scheme = r.scheme,
        !.module_name = r.module_name,
        !.filename = r.filename,
        !.pc = IF r.st = "ok" THEN "cf_source" ELSE "done",
        !.ret = IF r.st = "ok" THEN NoRet
                ELSE IF r.st = "err" THEN RetErr(DenoError(r.err, Empty))
                ELSE RetPanic(r.err)]

\* What resolve_module returns for each of the inputs of code_fetch.
Resolutions == [in \in FetchInputs |-> resolve_module(in[1], in[2])]

\* A call of code_fetch:
\* let (module_name, filename) = self.resolve_module(..)?;
Resolve(p) ==
    /\ proc[p].pc = "idle"
    /\ \E in \in FetchInputs :
          proc' = [proc EXCEPT ![p] =
                      Resolved(in[1], in[2], Resolutions[in])]
    /\ ncalls' = ncalls + 1
    /\ UNCHANGED <<reload, files, gen_files, stored, nedits, pure>>

\* A load that, on an error, falls back to reading the cached copy.
LoadFailedReadsCache(p, err) ==
    [proc EXCEPT ![p].pc = "frs_read", ![p].load_err = err]

\* A call of code_fetch for a remote url whose host is "..": the file
\* get_cache_filename gives for it is <deps>/../gen/x, a file of gen.
ResolveUnderGen(p) ==
    LET u == S_http_prefix \o <<".", ".", "/", "g", "e", "n", "/", "x">>
    IN  /\ proc[p].pc = "idle"
        /\ proc' = [proc EXCEPT ![p] = Resolved(u, S_dot, resolve_module(u, S_dot))]
        /\ ncalls' = ncalls + 1
        /\ UNCHANGED <<reload, files, gen_files, stored, nedits, pure>>

\* The end of code_fetch when the source load failed with err.
LoadFailed(p, err) ==
    [proc EXCEPT ![p].pc = "done", ![p].load_err = err,
                 ![p].ret = RetErr(load_error(err, proc[p].a1, proc[p].a2))]

\* fetch_remote_source without the reload flag.
needs_fetch_if_absent(existed) == ~existed

\* fetch_remote_source that fetches whether or not the file exists.
needs_fetch_always(existed) == TRUE

\* if self.reload || !p.exists()
needs_fetch(existed) == reload \/ ~existed

\* The caller p once fs::read_to_string has returned rd.
SourceRead(p, rd) ==
    IF rd.kind = "Ok"
    THEN [proc EXCEPT ![p].source_code = rd.data, ![p].pc = "cf_cache"]
    ELSE LoadFailed(p, io_error(rd.kind))

\* fetch_remote_source: p.exists() decides between the fetch and the read.
RemoteBranch(p, e) ==
    [proc EXCEPT ![p].existed = e,
                 ![p].pc = IF needs_fetch(e) THEN "frs_fetch" ELSE "frs_read"]

\* get_source_code: the branch taken, and for a local module the read.
GetSourceCode(p) ==
    /\ proc[p].pc = "cf_source"
    /\ proc' = IF is_remote(proc[p].module_name)
               THEN RemoteBranch(p, path_exists(files, proc[p].filename))
               ELSE IF starts_with(proc[p].module_name, ASSET_PREFIX)
               THEN Finish(p, RetPanic("asset"))
               ELSE IF proc[p].module_name # proc[p].filename
               THEN Finish(p, RetPanic("assert_eq"))
               ELSE SourceRead(p, read_to_string(files, proc[p].filename))
    /\ UNCHANGED <<reload, files, gen_files, stored, ncalls, nedits, pure>>

\* let source = net::fetch_sync_string(module_name)?;
FetchSyncString(p) ==
    /\ proc[p].pc = "frs_fetch"
    /\ \/ \E text \in RemoteTexts :
             proc' = [proc EXCEPT ![p].source_code = text,
                                  ![p].fetched = proc[p].fetched + 1,
                                  ![p].pc = "frs_mkdir"]
       \/ \E k \in FetchErrorKinds :
             proc' = [LoadFailed(p, DenoError(k, <<"n", "e", "t">>))
                         EXCEPT ![p].fetched = proc[p].fetched + 1]
    /\ UNCHANGED <<reload, files, gen_files, stored, ncalls, nedits, pure>>

\* The caller p after a file-system call of result kind k; `?` ends the
\* call on Err.
AfterIo(p, k, next) ==
    IF k = "Ok" THEN [proc EXCEPT ![p].pc = next]
    ELSE LoadFailed(p, io_error(k))

\* match p.parent() { Some(ref parent) => fs::create_dir_all(parent), None => Ok(()) }
ParentKind(fs, par) ==
    IF par = <<>> THEN "Ok" ELSE create_dir_all_kind(fs, par[1])

ParentMade(fs, par, k) ==
    IF par = <<>> \/ k # "Ok" THEN fs ELSE create_dir_all_fs(fs, par[1])

CreateDirAllStep(p, par, k) ==
    /\ files' = ParentMade(files, par, k)
    /\ proc' = AfterIo(p, k, "frs_create")

\* match p.parent() { Some(ref parent) => fs::create_dir_all(parent), .. }?;
CreateDirAll(p) ==
    /\ proc[p].pc = "frs_mkdir"
    /\ CreateDirAllStep(p, path_parent(proc[p].filename),
                        ParentKind(files, path_parent(proc[p].filename)))
    /\ UNCHANGED <<reload, gen_files, stored, ncalls, nedits, pure>>

WriteFileCreateStep(p, k) ==
    /\ files' = IF k = "Ok" THEN SetFile(files, proc[p].filename, File(Empty))
                ELSE files
    /\ proc' = AfterIo(p, k, "frs_write")

\* deno_fs::write_file_sync, first half: File::create.
WriteFileCreate(p) ==
    /\ proc[p].pc = "frs_create"
    /\ WriteFileCreateStep(p, file_create_kind(files, proc[p].filename))
    /\ UNCHANGED <<reload, gen_files, stored, ncalls, nedits, pure>>

\* deno_fs::write_file_sync, second half: write_all of the source.
WriteFileAll(p) ==
    /\ proc[p].pc = "frs_write"
    /\ files' = SetFile(files, proc[p].filename, File(proc[p].source_code))
    /\ proc' = [proc EXCEPT ![p].pc = "cf_cache"]
    /\ UNCHANGED <<reload, gen_files, stored, ncalls, nedits, pure>>

\* let source = fs::read_to_string(&p)?;
ReadCached(p) ==
    /\ proc[p].pc = "frs_read"
    /\ proc' = SourceRead(p, read_to_string(files, proc[p].filename))
    /\ UNCHANGED <<reload, files, gen_files, stored, ncalls, nedits, pure>>

LoadCacheAt(name) ==
    IF cache_exists(name) THEN IoOk(gen_files[name]) ELSE IoErr("NotFound")

\* load_cache keyed on the filename alone.
load_cache_by_filename(filename, source_code) ==
    LoadCacheAt(cache_path(filename, Empty)[2])

\* fs::read_to_string(&self.cache_path(filename, source_code)).
load_cache(filename, source_code) ==
    LoadCacheAt(cache_path(filename, source_code)[2])

\* The result of code_fetch for the result r of load_cache.
Fetched(p, r) ==
    IF r.kind = "Ok"
    THEN RetOk(CodeFetchOutput(proc[p].module_name, proc[p].filename,
                               proc[p].source_code, <<r.data>>))
    ELSE IF r.kind = "NotFound"
    THEN RetOk(CodeFetchOutput(proc[p].module_name, proc[p].filename,
                               proc[p].source_code, <<>>))
    ELSE RetErr(io_error(r.kind))

\* The lookup of the compiled output and the result of code_fetch.
LoadCache(p) ==
    /\ proc[p].pc = "cf_cache"
    /\ proc' = [proc EXCEPT ![p].pc = "done", ![p].consulted = TRUE,
                   ![p].ret = Fetched(p, load_cache(proc[p].filename,
                                                    proc[p].source_code))]
    /\ UNCHANGED <<reload, files, gen_files, stored, ncalls, nedits, pure>>

\* The call returns to its caller.
Return(p) ==
    /\ proc[p].pc = "done"
    /\ proc' = [proc EXCEPT ![p] = Idle]
    /\ UNCHANGED <<reload, files, gen_files, stored, ncalls, nedits, pure>>

\* Somebody edits, creates or removes a local source file.
LocalEdit ==
    /\ nedits < MaxEdits
    /\ nedits' = nedits + 1
    /\ \E q \in {P_a, P_ab} :
          \/ \E c \in {T_x, T_bx} : files' = SetFile(files, q, File(c))
          \/ /\ q \in DOMAIN files
             /\ files' = [r \in DOMAIN files \ {q} |-> files[r]]
    /\ UNCHANGED <<reload, gen_files, proc, stored, ncalls, pure>>

\* A caller takes the next step of its call.
Work(p) ==
    \/ CodeCacheCreate(p)
    \/ CodeCacheWrite(p)
    \/ GetSourceCode(p)
    \/ FetchSyncString(p)
    \/ CreateDirAll(p)
    \/ WriteFileCreate(p)
    \/ WriteFileAll(p)
    \/ ReadCached(p)
    \/ LoadCache(p)

\* The callers are numbered in the order of their calls.
Earlier(p) == \A q \in 1..(p - 1) : proc[q].pc # "idle"

\* Callers run concurrently against one cache root, one step at a time.
Next ==
    \E p \in Procs :
        \/ Earlier(p) /\ (CodeCacheExists(p) \/ Resolve(p))
        \/ Work(p)

Spec == Init /\ [][Next]_vars

\* One call at a time, and edits of the local files between the calls.
NextSeq ==
    \/ LocalEdit /\ \A p \in Procs : proc[p].pc = "idle"
    \/ \E p \in Procs :
          /\ \A q \in Procs \ {p} : proc[q].pc = "idle"
          /\ \/ /\ ncalls < MaxCalls
                /\ Earlier(p)
                /\ (CodeCacheExists(p) \/ Resolve(p) \/ ResolveUnderGen(p))
             \/ Work(p)
             \/ Return(p)

SpecSeq == Init /\ [][NextSeq]_vars

-----------------------------------------------------------------------------
(* The pure functions on their own: one run takes an input and applies     *)
(* the function to it.                                                      *)

ResolveSpecifiers ==
    { P_a,
      <<"/", "a", "/", ".", ".", "/", "b">>,
      <<"/", "a", "/">>,
      <<".", "/", "u">>,
      <<".", ".", "/", "u">>,
      <<"u">>,
      Empty,
      U_h_a,
      U_h_a \o S_slash,
      S_http_prefix \o <<".", ".", "/", "g", "e", "n", "/", "x">>,
      S_https \o <<":", "/", "/", "h", ":", "8", "/", "a">>,
      deps \o <<"/", "h", "/", "a">>,
      deps \o <<"/", "h">> \o S_PORT \o <<"8", "/", "a">>,
      deps,
      ASSET_PREFIX \o <<"a">>,
      <<"x", ":", "/", "/", "h", "/", "a">>,
      <<"x", ":", "a">>,
      S_http,
      S_file \o <<":", "/", "/", "/", "a">> }

ResolveContaining ==
    { S_dot,
      <<"/", "l", "/", "m">>,
      <<"/", "l", "/">>,
      S_http_prefix \o <<"h", "/", "d", "/", "m">>,
      S_http_prefix \o <<"h", "/", "d", "/">>,
      deps \o <<"/", "h", "/", "d", "/", "m">>,
      <<"v">>,
      Empty }

InitPure(input) ==
    /\ reload = FALSE
    /\ files = InitFiles
    /\ gen_files = << >>
    /\ proc = [p \in Procs |-> Idle]
    /\ stored = {}
    /\ ncalls = 0
    /\ nedits = 0
    /\ pure = input

InitResolve ==
    \E a \in ResolveSpecifiers, b \in ResolveContaining :
        InitPure([phase |-> "resolve", a |-> a, b |-> b, r |-> Empty])

\* self.resolve_module(module_specifier, containing_file)
ApplyResolve ==
    /\ pure.phase = "resolve"
    /\ pure' = [pure EXCEPT !.phase = "resolved", !.r = resolve_module(pure.a, pure.b)]
    /\ UNCHANGED <<reload, files, gen_files, proc, stored, ncalls, nedits>>

SpecResolve == InitResolve /\ [][ApplyResolve]_vars

CodecSchemes == {S_http, S_https}

CodecHosts == {<<"h">>, <<"g">> \o S_PORT}

CodecPorts ==
    {Empty, <<":", "8">>, <<":", "8", "0">>, <<":", "4", "4", "3">>, <<":", "0", "8">>}

CodecPaths ==
    { Empty,
      <<"/">>,
      <<"/", "a">>,
      <<"/", "a", "/", "b">>,
      <<"/", "a", "/">>,
      <<"/", "a", "/", "/", "b">>,
      <<"/">> \o S_PORT,
      <<"/", "a">> \o S_PORT \o <<"8", "/", "b">>,
      <<"/", ".", "/", "a">>,
      <<"/", "a", "/", ".", ".">> }

InitCodec ==
    \E sc \in CodecSchemes, h \in CodecHosts, po \in CodecPorts, pa \in CodecPaths :
        InitPure([phase |-> "text", a |-> sc \o <<":", "/", "/">> \o h \o po \o pa,
                  b |-> Empty, r |-> Empty])

Parsed(r) ==
    IF r.st = "ok" THEN [pure EXCEPT !.phase = "url", !.b = r.url]
    ELSE [pure EXCEPT !.phase = "invalid"]

\* Url::parse of the text of a remote url.
CodecParse ==
    /\ pure.phase = "text"
    /\ pure' = Parsed(Url_parse(pure.a))
    /\ UNCHANGED <<reload, files, gen_files, proc, stored, ncalls, nedits>>

\* get_cache_filename(self.deps.as_path(), url)
CodecEncode ==
    /\ pure.phase = "url"
    /\ pure' = [pure EXCEPT !.phase = "encoded",
                            !.r = get_cache_filename(deps, pure.b)[1]]
    /\ UNCHANGED <<reload, files, gen_files, proc, stored, ncalls, nedits>>

\* self.src_file_to_url(filename)
CodecDecode ==
    /\ pure.phase = "encoded"
    /\ pure' = [pure EXCEPT !.phase = "decoded", !.r = src_file_to_url(pure.r)]
    /\ UNCHANGED <<reload, files, gen_files, proc, stored, ncalls, nedits>>

SpecCodec == InitCodec /\ [][CodecParse \/ CodecEncode \/ CodecDecode]_vars

\* Two (filename, source_code) pairs, from three names and four texts.
InitCachePath ==
    \E f1, f2 \in {P_a, P_ab, <<"/", "b">>},
       s1, s2 \in {T_x, T_bx, Empty, <<"x", "b">>} :
        InitPure([phase |-> "pairs", a |-> <<f1, s1>>, b |-> <<f2, s2>>,
                  r |-> Empty])

\* self.cache_path(filename, source_code), for each of the two pairs.
ApplyCachePath ==
    /\ pure.phase = "pairs"
    /\ pure' = [pure EXCEPT !.phase = "paths",
                            !.r = <<cache_path(pure.a[1], pure.a[2]),
                                    cache_path(pure.b[1], pure.b[2])>>]
    /\ UNCHANGED <<reload, files, gen_files, proc, stored, ncalls, nedits>>

SpecCachePath == InitCachePath /\ [][ApplyCachePath]_vars

-----------------------------------------------------------------------------
(* The properties of the compiled-output cache.                            *)

\* C1: over a sequence of calls, a code_fetch that loaded its source returns
\* Ok, never the cache's NotFound; its maybe_output_code is None when no
\* file is at cache_path(filename, source_code), and it is Some(out) for
\* every code_cache(filename, source_code, out) that stored an entry before
\* it with the same filename and the same source_code.
C1_CacheHitMiss ==
    \A p \in Procs :
        (proc[p].pc = "done" /\ proc[p].op = "code_fetch" /\ proc[p].consulted) =>
            /\ proc[p].ret.st = "ok"
            /\ proc[p].ret.out.filename = proc[p].filename
            /\ proc[p].ret.out.source_code = proc[p].source_code
            /\ (cache_path(proc[p].filename, proc[p].source_code)[2]
                    \notin DOMAIN gen_files)
                  => proc[p].ret.out.maybe_output_code = <<>>
            /\ \A rec \in stored :
                  (rec.filename = proc[p].filename
                   /\ rec.source_code = proc[p].source_code)
                  => proc[p].ret.out.maybe_output_code = <<rec.output_code>>

\* A code_fetch has returned the output an earlier code_cache stored for
\* the filename and the source it loaded.
C1_Witness ==
    \E p \in Procs, rec \in stored :
        /\ proc[p].pc = "done" /\ proc[p].op = "code_fetch" /\ proc[p].consulted
        /\ rec.filename = proc[p].filename
        /\ rec.source_code = proc[p].source_code
        /\ proc[p].ret.out.maybe_output_code = <<rec.output_code>>

\* C2: one call after the other, a code_cache(filename, source_code, out2)
\* that follows a code_cache(filename, source_code, out1) with out1 # out2
\* returns Ok without writing, and the entry still holds out1.
C2_WriteOnceSequential ==
    \A p \in Procs, rec \in stored :
        (/\ proc[p].pc = "done" /\ proc[p].op = "code_cache"
         /\ rec.filename = proc[p].a1 /\ rec.source_code = proc[p].a2
         /\ rec.output_code # proc[p].a3)
        => /\ ~proc[p].wrote
           /\ proc[p].ret.st = "ok"
           /\ CacheName(p) \in DOMAIN gen_files
           /\ gen_files[CacheName(p)] = rec.output_code

\* A second code_cache of a stored key with another payload has returned.
C2_Witness ==
    \E p \in Procs, rec \in stored :
        /\ proc[p].pc = "done" /\ proc[p].op = "code_cache"
        /\ rec.filename = proc[p].a1 /\ rec.source_code = proc[p].a2
        /\ rec.output_code # proc[p].a3
        /\ proc[p].existed /\ ~proc[p].wrote

\* C3: in every interleaving of concurrent code_cache calls, an entry that
\* a call has written for a key is not overwritten, changed or deleted by
\* the writers of that key: whenever no caller is in the middle of its write
\* of the entry, and only calls for that key have written it, the entry
\* holds what the call wrote.
C3_WriteOnceConcurrent ==
    \A rec \in stored :
        (/\ \A p \in Procs :
               ~(/\ proc[p].pc = "cc_write"
                 /\ CacheName(p) = cache_path(rec.filename, rec.source_code)[2])
         /\ \A other \in stored :
               cache_path(other.filename, other.source_code)
                     = cache_path(rec.filename, rec.source_code)
               => /\ other.filename = rec.filename
                  /\ other.source_code = rec.source_code)
        => /\ cache_path(rec.filename, rec.source_code)[2] \in DOMAIN gen_files
           /\ gen_files[cache_path(rec.filename, rec.source_code)[2]]
                 = rec.output_code

\* C4: code_fetch returns Some(o) only if a code_cache call stored o for
\* exactly the filename and the source_code that this code_fetch loaded.
C4_ExactKey ==
    \A p \in Procs :
        (/\ proc[p].pc = "done" /\ proc[p].op = "code_fetch"
         /\ proc[p].ret.st = "ok"
         /\ proc[p].ret.out.maybe_output_code # <<>>)
        => \E rec \in stored :
              /\ rec.filename = proc[p].ret.out.filename
              /\ rec.source_code = proc[p].ret.out.source_code
              /\ <<rec.output_code>> = proc[p].ret.out.maybe_output_code

-----------------------------------------------------------------------------
(* The properties of the source load.                                      *)

\* C5: for a remote module whose load has ended: with reload false and a
\* file at filename, the fetch primitive was not invoked and a successful
\* load returned the content of the file; with reload true, or with no file
\* at filename, the fetch primitive was invoked.
C5_RefetchGating ==
    \A p \in Procs :
        (/\ proc[p].op = "code_fetch" /\ proc[p].rst = "ok"
         /\ is_remote(proc[p].module_name)
         /\ \/ proc[p].pc = "cf_cache"
            \/ proc[p].pc = "done"
               /\ (proc[p].consulted \/ proc[p].load_err # NoError))
        => /\ (~reload /\ proc[p].existed)
                 => /\ proc[p].fetched = 0
                    /\ proc[p].load_err = NoError
                          => /\ proc[p].filename \in DOMAIN files
                             /\ proc[p].source_code = files[proc[p].filename].data
           /\ reload => proc[p].fetched = 1
           /\ ~proc[p].existed => proc[p].fetched = 1

\* A remote module was loaded from its file in deps without a fetch.
C5_Witness ==
    \E p \in Procs :
        /\ proc[p].op = "code_fetch" /\ proc[p].pc = "done"
        /\ is_remote(proc[p].module_name)
        /\ ~reload /\ proc[p].existed /\ proc[p].fetched = 0
        /\ proc[p].ret.st = "ok"
        /\ proc[p].ret.out.source_code = files[proc[p].filename].data

\* C6: when resolution succeeded and the source load failed, code_fetch
\* returns an error and no CodeFetchOutput, and has not consulted the
\* compiled cache; for a load error of kind NotFound the error is of kind
\* NotFound and its message holds the module_specifier and the
\* containing_file of the call; any other load error is returned unchanged.
C6_ErrorRewriting ==
    \A p \in Procs :
        (/\ proc[p].pc = "done" /\ proc[p].op = "code_fetch"
         /\ proc[p].rst = "ok" /\ proc[p].load_err # NoError)
        => /\ proc[p].ret.st = "err"
           /\ proc[p].ret.out = NoOutput
           /\ ~proc[p].consulted
           /\ proc[p].load_err.kind = "NotFound"
                 => /\ proc[p].ret.err.kind = "NotFound"
                    /\ contains(proc[p].ret.err.msg, proc[p].a1)
                    /\ contains(proc[p].ret.err.msg, S_quote \o proc[p].a2 \o S_quote)
           /\ proc[p].load_err.kind # "NotFound"
                 => proc[p].ret.err = proc[p].load_err

\* A code_fetch has returned after its source load failed with NotFound.
C6_Witness ==
    \E p \in Procs :
        /\ proc[p].pc = "done" /\ proc[p].op = "code_fetch"
        /\ proc[p].rst = "ok"
        /\ proc[p].load_err.kind = "NotFound"
        /\ proc[p].ret.st = "err"

\* C7: whenever resolve_module has succeeded inside code_fetch, the source
\* loader is reached with a remote module_name, or with a module_name that
\* equals filename and does not begin with the asset prefix.
C7_NoFatalViolation ==
    \A p \in Procs :
        (proc[p].op = "code_fetch" /\ proc[p].pc = "cf_source")
        => \/ is_remote(proc[p].module_name)
           \/ /\ proc[p].module_name = proc[p].filename
              /\ ~starts_with(proc[p].module_name, ASSET_PREFIX)

-----------------------------------------------------------------------------
(* The properties of resolve_module.                                       *)

\* C8: two calls of resolve_module with the same module_specifier and the
\* same containing_file return the same result, whatever code_cache calls
\* and remote loads run between or beside them; and the step that resolves
\* changes neither the deps cache nor the gen cache.
C8_ResolutionPurity ==
    /\ [](\A p, q \in Procs :
            (/\ proc[p].op = "code_fetch" /\ proc[q].op = "code_fetch"
             /\ proc[p].rst # "none" /\ proc[q].rst # "none"
             /\ proc[p].a1 = proc[q].a1 /\ proc[p].a2 = proc[q].a2)
            => /\ proc[p].rst = proc[q].rst
               /\ proc[p].module_name = proc[q].module_name
               /\ proc[p].filename = proc[q].filename)
    /\ [][\A p \in Procs :
            (proc[p].pc = "idle" /\ proc'[p].op = "code_fetch")
            => (files' = files /\ gen_files' = gen_files)]_vars

\* Two callers have resolved the same inputs, one of them where the remote
\* load of the other had already written the file into the deps cache.
C8_Witness ==
    \E p, q \in Procs :
        /\ p # q
        /\ proc[p].op = "code_fetch" /\ proc[q].op = "code_fetch"
        /\ proc[p].a1 = proc[q].a1 /\ proc[p].a2 = proc[q].a2
        /\ proc[p].rst = "ok" /\ proc[q].rst = "ok"
        /\ proc[p].fetched = 1 /\ proc[p].pc = "done" /\ proc[p].ret.st = "ok"
        /\ proc[q].existed
        /\ proc[q].module_name = proc[p].module_name

\* C9 as the specification states it: a file-scheme result has module_name
\* equal to filename, and an absolute local path resolved with
\* containing_file "." gives module_name = filename = the normalized path.
C9_LocalIdentity ==
    pure.phase = "resolved" =>
        /\ (pure.r.st = "ok" /\ pure.r.scheme = S_file)
              => pure.r.module_name = pure.r.filename
        /\ (is_absolute(pure.a) /\ pure.b = S_dot)
              => /\ pure.r.st = "ok"
                 /\ pure.r.module_name = normalize_path(pure.a)
                 /\ pure.r.filename = normalize_path(pure.a)

\* C9, amended: a file-scheme result has module_name equal to filename, and
\* an absolute local path that is not under the deps root, resolved with
\* containing_file ".", gives module_name = filename = the normalized path.
C9_LocalIdentityOutsideDeps ==
    pure.phase = "resolved" =>
        /\ (pure.r.st = "ok" /\ pure.r.scheme = S_file)
              => pure.r.module_name = pure.r.filename
        /\ (is_absolute(pure.a) /\ ~path_starts_with(pure.a, deps)
            /\ pure.b = S_dot)
              => /\ pure.r.st = "ok"
                 /\ pure.r.scheme = S_file
                 /\ pure.r.module_name = normalize_path(pure.a)
                 /\ pure.r.filename = normalize_path(pure.a)

\* An absolute local path that normalization changes has been resolved
\* with containing_file ".".
C9_Witness ==
    /\ pure.phase = "resolved"
    /\ is_absolute(pure.a) /\ ~path_starts_with(pure.a, deps) /\ pure.b = S_dot
    /\ normalize_path(pure.a) # pure.a
    /\ pure.r.st = "ok"
    /\ pure.r.module_name = normalize_path(pure.a)

-----------------------------------------------------------------------------
(* The properties of the cache key and of the cache files.                 *)

\* C11: cache_path gives the same path for the same (filename, source_code)
\* pair, and different paths for two pairs that differ in filename or in
\* source_code (the hash taken as collision-free on its input bytes).
C11_KeyDistinct ==
    pure.phase = "paths" =>
        /\ pure.a = pure.b => pure.r[1] = pure.r[2]
        /\ pure.a # pure.b => pure.r[1] # pure.r[2]

\* C12 (as stated): with the calls made one at a time, a file once written
\* in the gen cache or in the deps cache is still there after every later
\* step and still holds what was first written to it.  A file is written
\* once the call that creates it has finished its write, and a call that
\* writes the same text again counts as leaving the file as it was: a
\* cache file that a step removes or changes is one that the step empties
\* for a write of the text it held.
C12_Permanent ==
    [][(files' # files \/ gen_files' # gen_files) =>
       /\ \A n \in DOMAIN gen_files :
             (~\E p \in Procs : proc[p].pc = "cc_write" /\ CacheName(p) = n)
             => (n \in DOMAIN gen_files' /\ gen_files'[n] = gen_files[n])
       /\ \A f \in DOMAIN files :
             (/\ ~files[f].isdir
              /\ f \in DOMAIN files' => files'[f] # files[f]
              /\ ~\E p \in Procs : proc[p].pc = "frs_write"
                                   /\ proc[p].filename = f
              /\ path_starts_with(f, deps) \/ path_starts_with(f, gen))
             => /\ f \in DOMAIN files'
                /\ \E p \in Procs :
                      /\ proc'[p].pc = "frs_write"
                      /\ proc'[p].filename = f
                      /\ proc'[p].source_code = files[f].data]_vars

\* C12 (amended): the same when reload is false.  With reload set every
\* load of a remote module fetches again and writes the fetched text over
\* the file.
C12_PermanentUnlessReload ==
    [][(~reload /\ (files' # files \/ gen_files' # gen_files)) =>
       /\ \A n \in DOMAIN gen_files :
             (~\E p \in Procs : proc[p].pc = "cc_write" /\ CacheName(p) = n)
             => (n \in DOMAIN gen_files' /\ gen_files'[n] = gen_files[n])
       /\ \A f \in DOMAIN files :
             (/\ ~files[f].isdir
              /\ f \in DOMAIN files' => files'[f] # files[f]
              /\ ~\E p \in Procs : proc[p].pc = "frs_write"
                                   /\ proc[p].filename = f
              /\ path_starts_with(f, deps) \/ path_starts_with(f, gen))
             => /\ f \in DOMAIN files'
                /\ \E p \in Procs :
                      /\ proc'[p].pc = "frs_write"
                      /\ proc'[p].filename = f
                      /\ proc'[p].source_code = files[f].data]_vars

\* A load of a remote module found its deps file and did not fetch, and a
\* code_cache found its entry and did not write, the files being as they
\* were written.
C12_Witness ==
    /\ ~reload
    /\ \E p \in Procs :
          /\ proc[p].op = "code_fetch"
          /\ proc[p].pc = "done"
          /\ proc[p].ret.st = "ok"
          /\ is_remote(proc[p].module_name)
          /\ proc[p].existed
          /\ proc[p].fetched = 0
          /\ proc[p].filename \in DOMAIN files
          /\ files[proc[p].filename] = File(proc[p].source_code)

-----------------------------------------------------------------------------
(* The properties of relative resolution.                                  *)

\* C13: when containing_file is the deps-cache file of a remote module and
\* the specifier is relative (no scheme, not an absolute path),
\* resolve_module succeeds, module_name is the specifier resolved against
\* the url of the module, and filename is the file under deps that encodes
\* module_name.
C13_RelativeInCachedRemote ==
    LET base == Url_parse(S_http_prefix \o <<"h", "/", "d", "/", "m">>).url
        j == Url_join(base, pure.a)
    IN  (/\ pure.phase = "resolved"
         /\ <<pure.b>> = get_cache_filename(deps, base)
         /\ scheme_end(pure.a) = 0
         /\ ~is_absolute(pure.a))
        => /\ pure.r.st = "ok"
           /\ j.st = "ok"
           /\ pure.r.module_name = to_string(j.url)
           /\ path_starts_with(pure.r.filename, deps)
           /\ <<pure.r.filename>> = get_cache_filename(deps, j.url)

\* C14: for a specifier that is not empty, has no scheme and is not an
\* absolute path, and a containing_file that is an absolute path or an
\* absolute remote url, resolve_module succeeds and gives what it gives,
\* with containing_file ".", for the specifier written after the base
\* directory: containing_file through its last "/", which is all of it when
\* it ends with "/".
C14_RelativeMode ==
    LET k == CHOOSE i \in 0..Len(pure.b) :
                 /\ i > 0 => pure.b[i] = "/"
                 /\ \A m \in (i + 1)..Len(pure.b) : pure.b[m] # "/"
    IN  (/\ pure.phase = "resolved"
         /\ pure.a # Empty
         /\ scheme_end(pure.a) = 0
         /\ ~is_absolute(pure.a)
         /\ \/ is_absolute(pure.b)
            \/ is_remote(pure.b) /\ Url_parse(pure.b).st = "ok")
        => /\ pure.r.st = "ok"
           /\ pure.r = resolve_module(Take(pure.b, k) \o pure.a, S_dot)

-----------------------------------------------------------------------------
(* The properties of concurrent calls.                                     *)

\* C15: a code_fetch that runs while code_cache calls write the entry of
\* the key it looks up returns None, or the whole output_code that one of
\* those calls was given, never a part of it.
C15_NoPartialRead ==
    \A p \in Procs :
        (/\ proc[p].op = "code_fetch"
         /\ proc[p].pc = "done"
         /\ proc[p].consulted
         /\ proc[p].ret.st = "ok"
         /\ proc[p].ret.out.maybe_output_code # <<>>)
        => \E q \in Procs \ {p} :
              /\ proc[q].op = "code_cache"
              /\ CacheName(q) = cache_path(proc[p].filename,
                                           proc[p].source_code)[2]
              /\ proc[p].ret.out.maybe_output_code = <<proc[q].a3>>

\* C16: with reload false and the deps file absent at first, when the
\* callers have all loaded the same remote module and every fetch made has
\* returned the same text t, each caller has returned t as the source and
\* the deps file holds t.
C16_FetchRace ==
    \A t \in RemoteTexts :
        (/\ ~reload
         /\ \A p \in Procs :
               /\ proc[p].op = "code_fetch"
               /\ proc[p].pc = "done"
               /\ is_remote(proc[p].module_name)
               /\ proc[p].filename = proc[1].filename
               /\ proc[p].fetched > 0 => proc[p].source_code = t
         /\ \E p \in Procs : proc[p].fetched > 0)
        => /\ \A p \in Procs :
                 /\ proc[p].ret.st = "ok"
                 /\ proc[p].ret.out.source_code = t
           /\ proc[1].filename \in DOMAIN files
           /\ files[proc[1].filename] = File(t)

-----------------------------------------------------------------------------
(* The frame of code_fetch.                                                *)

\* C17: with the calls made one at a time, a code_fetch changes no file
\* and no directory on its way to the fetch, and when the fetch returns an
\* error the call ends there: nothing is created, written or emptied, the
\* load's error is the error of the fetch, the fetch was made once, and
\* the call returns an error whether or not a cached file exists.
C17_FailedFetchFrame ==
    [][\A p \in Procs :
          /\ proc'[p].pc \in {"cf_source", "frs_fetch"}
                => (files' = files /\ gen_files' = gen_files)
          /\ (proc[p].pc = "frs_fetch" /\ proc'[p].pc # "frs_mkdir")
                => /\ files' = files
                   /\ gen_files' = gen_files
                   /\ proc'[p].pc = "done"
                   /\ proc'[p].fetched = 1
                   /\ proc'[p].load_err.kind \in FetchErrorKinds
                   /\ proc'[p].load_err.msg = <<"n", "e", "t">>
                   /\ proc'[p].ret.st = "err"
                   /\ proc'[p].ret.err.kind = proc'[p].load_err.kind]_vars

\* With reload set, the fetch for a module with a cached file has failed:
\* the call has returned the error and the file holds what it held.
C17_Witness ==
    \E p \in Procs :
        /\ reload
        /\ proc[p].op = "code_fetch"
        /\ proc[p].pc = "done"
        /\ proc[p].existed
        /\ proc[p].fetched = 1
        /\ proc[p].load_err.kind \in FetchErrorKinds
        /\ proc[p].ret.st = "err"
        /\ proc[p].filename \in DOMAIN files
        /\ files[proc[p].filename] \in {File(t) : t \in RemoteTexts}

\* C18: with the calls made one at a time, no step of a code_fetch
\* creates, changes or removes a file of gen; no step of a code_fetch of a
\* local module changes a file or a directory; and a code_fetch whose
\* resolution fails changes nothing.
C18_CodeFetchFrame ==
    [][\A p \in Procs :
          (proc'[p].op = "code_fetch" /\ proc'[p] # proc[p])
          => /\ gen_files' = gen_files
             /\ \A f \in DOMAIN files \cup DOMAIN files' :
                   (path_starts_with(f, gen) /\ f # gen)
                   => /\ f \in DOMAIN files
                      /\ f \in DOMAIN files'
                      /\ files'[f] = files[f]
             /\ ~is_remote(proc'[p].module_name) => files' = files
             /\ proc'[p].rst # "ok" => files' = files]_vars

-----------------------------------------------------------------------------
(* The stability of a resolved identity.                                   *)

====
